---- MODULE Spec2Model ----
(***************************************************************************)
(* NetPulse speedtest runner (speedtest_runner.py): the ISP tracker with   *)
(* its state file, the test cycle and the startup sequence of main().      *)
(*                                                                         *)
(* Python values are tagged records: None, Str(chars), Num(n), Bool(b).    *)
(* A string is a sequence of one-character strings, so that startswith,    *)
(* split, lower and the keyword search are computed as the code computes   *)
(* them.  ABSENT marks a key a JSON object does not hold.                  *)
(***************************************************************************)
EXTENDS Integers, Sequences, FiniteSets, TLC

None == [t |-> "none"]
ABSENT == [t |-> "absent"]
Str(s) == [t |-> "str", s |-> s]
Num(n) == [t |-> "num", n |-> n]
Bool(b) == [t |-> "bool", b |-> b]

IsStr(v) == v.t = "str"

\* Python truthiness of a value
Truthy(v) ==
    CASE v.t = "none" -> FALSE
      [] v.t = "str" -> v.s # << >>
      [] v.t = "num" -> v.n # 0
      [] v.t = "bool" -> v.b
      [] OTHER -> TRUE

\* dict.get(key, default) on a JSON object whose missing keys are ABSENT
Get(v, default) == IF v = ABSENT THEN default ELSE v

---------------------------------------------------------------------------
\* String operations

UpperChars == <<"A", "B", "C", "D", "E", "F", "G", "H", "I", "J", "K", "L", "M",
                "N", "O", "P", "Q", "R", "S", "T", "U", "V", "W", "X", "Y", "Z">>
LowerChars == <<"a", "b", "c", "d", "e", "f", "g", "h", "i", "j", "k", "l", "m",
                "n", "o", "p", "q", "r", "s", "t", "u", "v", "w", "x", "y", "z">>

LowerChar(c) ==
    IF \E k \in 1..Len(UpperChars) : UpperChars[k] = c
    THEN LowerChars[CHOOSE k \in 1..Len(UpperChars) : UpperChars[k] = c]
    ELSE c

\* str.lower()
Lower(s) == [k \in 1..Len(s) |-> LowerChar(s[k])]

\* str.startswith(p)
StartsWith(s, p) == Len(s) >= Len(p) /\ SubSeq(s, 1, Len(p)) = p

\* kw in s
Contains(s, kw) ==
    \E k \in 1..(Len(s) + 1) :
        k + Len(kw) - 1 <= Len(s) /\ SubSeq(s, k, k + Len(kw) - 1) = kw

\* index of the first space of s, 0 when there is none
FirstSpace(s) ==
    IF \E k \in 1..Len(s) : s[k] = " "
    THEN CHOOSE k \in 1..Len(s) : s[k] = " " /\ \A j \in 1..(k - 1) : s[j] # " "
    ELSE 0

\* A variant of the split that cuts at every space and keeps the first two
\* tokens.
SplitEvery(s) ==
    IF FirstSpace(s) = 0
    THEN <<s>>
    ELSE LET rest == SubSeq(s, FirstSpace(s) + 1, Len(s))
         IN  <<SubSeq(s, 1, FirstSpace(s) - 1),
               IF FirstSpace(rest) = 0 THEN rest
               ELSE SubSeq(rest, 1, FirstSpace(rest) - 1)>>

\* str.split(" ", 1)
SplitOnce(s) ==
    IF FirstSpace(s) = 0
    THEN <<s>>
    ELSE <<SubSeq(s, 1, FirstSpace(s) - 1), SubSeq(s, FirstSpace(s) + 1, Len(s))>>

\* str.split(" ")[0]
FirstToken(s) == SplitOnce(s)[1]

---------------------------------------------------------------------------
\* Connection-type keyword groups, in the order the code tests them

KwCellular ==
    << <<"m", "o", "b", "i", "l", "e">>,
       <<"c", "e", "l", "l", "u", "l", "a", "r">>,
       <<"w", "i", "r", "e", "l", "e", "s", "s">>,
       <<"l", "t", "e">>,
       <<"5", "g">>,
       <<"t", "-", "m", "o", "b", "i", "l", "e">>,
       <<"v", "e", "r", "i", "z", "o", "n", " ", "w", "i", "r", "e", "l", "e", "s", "s">>,
       <<"a", "t", "&", "t", " ", "m", "o", "b", "i", "l", "i", "t", "y">> >>
KwCable ==
    << <<"c", "a", "b", "l", "e">>,
       <<"c", "o", "m", "c", "a", "s", "t">>,
       <<"x", "f", "i", "n", "i", "t", "y">>,
       <<"s", "p", "e", "c", "t", "r", "u", "m">>,
       <<"c", "o", "x">>,
       <<"c", "h", "a", "r", "t", "e", "r">> >>
KwFiber ==
    << <<"f", "i", "b", "e", "r">>,
       <<"f", "i", "o", "s">>,
       <<"a", "t", "t", " ", "f", "i", "b", "e", "r">>,
       <<"g", "o", "o", "g", "l", "e", " ", "f", "i", "b", "e", "r">> >>
KwDsl ==
    << <<"d", "s", "l">>,
       <<"c", "e", "n", "t", "u", "r", "y", "l", "i", "n", "k">>,
       <<"f", "r", "o", "n", "t", "i", "e", "r">> >>

CT_cellular == Str(<<"c", "e", "l", "l", "u", "l", "a", "r">>)
CT_cable == Str(<<"c", "a", "b", "l", "e">>)
CT_fiber == Str(<<"f", "i", "b", "e", "r">>)
CT_dsl == Str(<<"d", "s", "l">>)
CT_unknown == Str(<<"u", "n", "k", "n", "o", "w", "n">>)

\* any(kw in isp_lower for kw in group)
AnyKw(isp_lower, group) == \E k \in 1..Len(group) : Contains(isp_lower, group[k])

\* A variant of the chain that tests the cable group before the cellular one.
InferCableFirst(isp) ==
    LET isp_lower == Lower(isp)
    IN  IF AnyKw(isp_lower, KwCable) THEN CT_cable
        ELSE IF AnyKw(isp_lower, KwCellular) THEN CT_cellular
        ELSE IF AnyKw(isp_lower, KwFiber) THEN CT_fiber
        ELSE IF AnyKw(isp_lower, KwDsl) THEN CT_dsl
        ELSE CT_unknown

\* the if/elif chain of get_ip_info on a string ISP name
InferConnectionType(isp) ==
    LET isp_lower == Lower(isp)
    IN  IF AnyKw(isp_lower, KwCellular) THEN CT_cellular
        ELSE IF AnyKw(isp_lower, KwCable) THEN CT_cable
        ELSE IF AnyKw(isp_lower, KwFiber) THEN CT_fiber
        ELSE IF AnyKw(isp_lower, KwDsl) THEN CT_dsl
        ELSE CT_unknown

---------------------------------------------------------------------------
\* ISPTracker.get_ip_info

EmptyIpInfo ==
    [ip |-> None, isp |-> None, asn |-> None, org |-> None, city |-> None,
     region |-> None, country |-> None, connection_type |-> None]

\* The primary provider's pass (ipinfo.io).  A response is
\* [kind, data]: kind "unreachable" (requests.get raises), "non200",
\* "malformed" (json() raises or is no object) or "ok" with data an object
\* [ip, org, city, region, country].
PrimaryPass(resp) ==
    IF resp.kind # "ok" THEN EmptyIpInfo
    ELSE
      LET data == resp.data
          base == [EmptyIpInfo EXCEPT
                     !.ip = Get(data.ip, None),
                     !.org = Get(data.org, Str(<< >>)),
                     !.city = Get(data.city, None),
                     !.region = Get(data.region, None),
                     !.country = Get(data.country, None)]
          org == Get(data.org, Str(<< >>))
      IN  IF ~IsStr(org)
          THEN base   \* org.startswith raises; the except clause keeps what was set
          ELSE IF StartsWith(org.s, <<"A", "S">>)
          THEN LET parts == SplitOnce(org.s)
               IN  [base EXCEPT
                      !.asn = Str(parts[1]),
                      !.isp = IF Len(parts) > 1 THEN Str(parts[2]) ELSE org]
          ELSE [base EXCEPT !.isp = org]

\* The secondary provider's pass (ip-api.com) over what the primary left.
\* data is an object [query, isp, as, org, city, regionName, countryCode].
SecondaryPass(info, resp) ==
    IF resp.kind # "ok" THEN info
    ELSE
      LET data == resp.data
          first == [info EXCEPT !.ip = Get(data.query, None),
                                !.isp = Get(data.isp, None)]
          as == Get(data.as, None)
      IN  IF Truthy(as) /\ ~IsStr(as)
          THEN first   \* .split raises; ip and isp are already assigned
          ELSE [first EXCEPT
                  !.asn = IF Truthy(as) THEN Str(FirstToken(as.s)) ELSE None,
                  !.org = Get(data.org, None),
                  !.city = Get(data.city, None),
                  !.region = Get(data.regionName, None),
                  !.country = Get(data.countryCode, None)]

\* the fallback condition: not ip_info["ip"]
NeedsFallback(info) == ~Truthy(info.ip)

\* [raised, info, secondary_queried]: raised when isp.lower() is applied to
\* a truthy value that is no string, outside every try block.
get_ip_info(primary, secondary) ==
    LET p == PrimaryPass(primary)
        q == IF NeedsFallback(p) THEN SecondaryPass(p, secondary) ELSE p
    IN  IF Truthy(q.isp) /\ ~IsStr(q.isp)
        THEN [raised |-> TRUE, info |-> q, secondary_queried |-> NeedsFallback(p)]
        ELSE [raised |-> FALSE,
              info |-> IF Truthy(q.isp)
                       THEN [q EXCEPT !.connection_type = InferConnectionType(q.isp.s)]
                       ELSE q,
              secondary_queried |-> NeedsFallback(p)]

---------------------------------------------------------------------------
\* ISPTracker: the in-memory baseline and the state file

\* the tracker's fields after __init__'s assignments, before _load_state
NoBaseline ==
    [last_ip |-> None, last_isp |-> None, last_asn |-> None,
     last_connection_type |-> None]

\* The state file is [kind |-> "absent"], [kind |-> "garbage"] (empty,
\* truncated, or JSON that is no object) or [kind |-> "json", doc |-> d] with
\* d the parsed object [ip, isp, asn, connection_type, updated_at].  json.dump
\* followed by json.load gives back the strings, numbers and nulls it was
\* given, so a document is held in its parsed form.
AbsentFile == [kind |-> "absent"]
GarbageFile == [kind |-> "garbage"]
JsonFile(d) == [kind |-> "json", doc |-> d]

Timestamp == Str(<<"n", "o", "w">>)

\* A variant of _load_state that restores last_ip alone; the properties of
\* the baseline across restarts are tested against it.
_load_state_ip_only(trk, f, readable) ==
    IF f.kind = "json" /\ readable
    THEN [trk EXCEPT !.last_ip = Get(f.doc.ip, None)]
    ELSE trk

\* _load_state: readable is whether open() and read succeed
_load_state(trk, f, readable) ==
    IF f.kind = "absent" THEN trk
    ELSE IF ~readable \/ f.kind # "json" THEN trk
    ELSE [last_ip |-> Get(f.doc.ip, None),
          last_isp |-> Get(f.doc.isp, None),
          last_asn |-> Get(f.doc.asn, None),
          last_connection_type |-> Get(f.doc.connection_type, None)]

\* A variant of the constructor that takes the fields of a state document
\* even when reading it failed.
ISPTracker_init_unguarded(f, readable) ==
    IF f.kind = "json" THEN _load_state(NoBaseline, f, TRUE) ELSE NoBaseline

\* ISPTracker.__init__
ISPTracker_init(f, readable) == _load_state(NoBaseline, f, readable)

\* the document _save_state writes
StateDoc(trk) ==
    [ip |-> trk.last_ip, isp |-> trk.last_isp, asn |-> trk.last_asn,
     connection_type |-> trk.last_connection_type, updated_at |-> Timestamp]

\* _save_state: the file it leaves.  outcome "ok"; "open_failed" (open(.., 'w')
\* raises, the file is untouched); "write_failed" (the file was truncated by
\* open and json.dump did not complete).
_save_state(trk, f, outcome) ==
    CASE outcome = "ok" -> JsonFile(StateDoc(trk))
      [] outcome = "open_failed" -> f
      [] outcome = "write_failed" -> GarbageFile

SaveOutcomes == {"ok", "open_failed", "write_failed"}

\* check_for_change: [report, tracker], the ChangeReport and the new baseline
NoChangeReport ==
    [changed |-> FALSE, ip_changed |-> FALSE, isp_changed |-> FALSE,
     asn_changed |-> FALSE, previous_ip |-> None, previous_isp |-> None,
     previous_asn |-> None, previous_connection_type |-> None]

\* A variant of NewBaseline that leaves last_ip as it was.
NewBaselineKeepingIp(trk, current_info) ==
    [last_ip |-> trk.last_ip,
     last_isp |-> current_info.isp,
     last_asn |-> current_info.asn,
     last_connection_type |-> current_info.connection_type]

\* A variant of NewBaseline that keeps the last known ip when the current ip
\* is null.
NewBaselineKeepingKnownIp(trk, current_info) ==
    [last_ip |-> IF current_info.ip = None THEN trk.last_ip ELSE current_info.ip,
     last_isp |-> current_info.isp,
     last_asn |-> current_info.asn,
     last_connection_type |-> current_info.connection_type]

\* "Update last known values"
NewBaseline(trk, current_info) ==
    [last_ip |-> current_info.ip,
     last_isp |-> current_info.isp,
     last_asn |-> current_info.asn,
     last_connection_type |-> current_info.connection_type]

\* A variant of InitialChangeInfo that reports no previous values.
InitialChangeInfoBlank(trk) == NoChangeReport

\* change_info as first built: flags False, previous_* the baseline
InitialChangeInfo(trk) ==
    [NoChangeReport EXCEPT
       !.previous_ip = trk.last_ip,
       !.previous_isp = trk.last_isp,
       !.previous_asn = trk.last_asn,
       !.previous_connection_type = trk.last_connection_type]

\* A variant of CompareIp that does not compare a null current ip.
CompareIpIfKnown(c, trk, current_info) ==
    IF current_info.ip # None /\ current_info.ip # trk.last_ip
    THEN [c EXCEPT !.ip_changed = TRUE, !.changed = TRUE] ELSE c

\* A variant of CompareAsn that sets asn_changed and leaves changed alone.
CompareAsnFlagOnly(c, trk, current_info) ==
    IF current_info.asn # trk.last_asn
    THEN [c EXCEPT !.asn_changed = TRUE] ELSE c

\* the three comparisons, made only when last_ip is not None
CompareIp(c, trk, current_info) ==
    IF current_info.ip # trk.last_ip
    THEN [c EXCEPT !.ip_changed = TRUE, !.changed = TRUE] ELSE c
CompareIsp(c, trk, current_info) ==
    IF current_info.isp # trk.last_isp
    THEN [c EXCEPT !.isp_changed = TRUE, !.changed = TRUE] ELSE c
CompareAsn(c, trk, current_info) ==
    IF current_info.asn # trk.last_asn
    THEN [c EXCEPT !.asn_changed = TRUE, !.changed = TRUE] ELSE c

\* A variant of HasBaseline that compares as soon as any field is known.
HasAnyBaseline(trk) ==
    trk.last_ip # None \/ trk.last_isp # None \/ trk.last_asn # None

\* whether the comparisons are made: self.last_ip is not None
HasBaseline(trk) == trk.last_ip # None

ChangeInfo(trk, current_info) ==
    LET c0 == InitialChangeInfo(trk)
    IN  IF HasBaseline(trk)
        THEN CompareAsn(CompareIsp(CompareIp(c0, trk, current_info),
                                   trk, current_info),
                        trk, current_info)
        ELSE c0

check_for_change(trk, current_info) ==
    [report |-> ChangeInfo(trk, current_info),
     tracker |-> NewBaseline(trk, current_info)]

---------------------------------------------------------------------------
\* Metrics writers

\* str(value) of a tag value: a string is itself; any other value is the
\* string Python prints for it, kept symbolically
PyStr(v) == IF IsStr(v) THEN v ELSE [t |-> "str", s |-> <<"<repr>">>, of |-> v]

\* A variant of InfluxDB1Writer.write_point that stringifies every tag, the
\* null ones included, and filters the fields alone.
write_point_keeping_null_tags(measurement, tags, fields) ==
    [measurement |-> measurement,
     tags |-> [k \in DOMAIN tags |-> PyStr(tags[k])],
     fields |-> [k \in {x \in DOMAIN fields : fields[x] # None} |-> fields[k]]]

\* InfluxDB1Writer.write_point: the point handed to client.write_points
InfluxDB1Writer_write_point(measurement, tags, fields) ==
    LET clean_tags == [k \in {x \in DOMAIN tags : tags[x] # None} |-> PyStr(tags[k])]
        clean_fields == [k \in {x \in DOMAIN fields : fields[x] # None} |-> fields[k]]
    IN  [measurement |-> measurement, tags |-> clean_tags, fields |-> clean_fields]

\* InfluxDB2Writer.write_point: the Point handed to write_api.write
InfluxDB2Writer_write_point(measurement, tags, fields) ==
    [measurement |-> measurement,
     tags |-> [k \in {x \in DOMAIN tags : ~(tags[x] = None)} |-> PyStr(tags[k])],
     fields |-> [k \in {x \in DOMAIN fields : ~(fields[x] = None)} |-> fields[k]]]

\* writer.write_point of the writer the runner holds
write_point(w, measurement, tags, fields) ==
    IF w = "v1"
    THEN InfluxDB1Writer_write_point(measurement, tags, fields)
    ELSE InfluxDB2Writer_write_point(measurement, tags, fields)

\* str.strip() of the version string
RECURSIVE LStrip(_)
LStrip(s) == IF s # << >> /\ s[1] = " " THEN LStrip(Tail(s)) ELSE s
RECURSIVE RStrip(_)
RStrip(s) ==
    IF s # << >> /\ s[Len(s)] = " " THEN RStrip(SubSeq(s, 1, Len(s) - 1)) ELSE s
Strip(s) == RStrip(LStrip(s))

\* A variant of create_influxdb_writer that does not ask for the credential.
create_writer_unchecked(e) ==
    IF Strip(e.version) = <<"1">>
    THEN [raised |-> FALSE, writer |-> "v1"]
    ELSE [raised |-> FALSE, writer |-> "v2"]

\* create_influxdb_writer over the module globals env =
\* [version, username, token]: [raised, writer]
create_influxdb_writer(e) ==
    IF Strip(e.version) = <<"1">>
    THEN IF e.username = << >>
         THEN [raised |-> TRUE, writer |-> "none"]
         ELSE [raised |-> FALSE, writer |-> "v1"]
    ELSE IF e.token = << >>
         THEN [raised |-> TRUE, writer |-> "none"]
         ELSE [raised |-> FALSE, writer |-> "v2"]

---------------------------------------------------------------------------
\* SpeedtestRunner.run_speedtest

\* data.get(a, {}).get(b): part is ABSENT or an object
Get2(part, key) == IF part = ABSENT THEN None ELSE Get(part[key], None)

\* (bandwidth * 8) / 1_000_000; the sampled bandwidths are multiples of
\* 125000 bytes/s, for which the quotient is exact
Mbps(bandwidth) == Num((bandwidth.n * 8) \div 1000000)

\* Only the keys the cycle reads afterwards are kept; download.latency.iqm
\* and upload.latency.iqm are held under the key latency_iqm.
\* The subprocess run is [kind, doc]: kind "timeout", "oserror" (run raises
\* anything else), "nonzero" (returncode != 0), "badjson" (stdout is no JSON
\* object) or "ok" with doc the parsed object
\* [ping, download, upload, packetLoss, server, result, isp, interface].
\* The value is None or the speedtest_result dict, download_mbps and
\* upload_mbps ABSENT when the bandwidth is falsy.
run_speedtest(proc) ==
    IF proc.kind # "ok" THEN None
    ELSE
      LET data == proc.doc
          r == [t |-> "dict",
                ping_jitter |-> Get2(data.ping, "jitter"),
                ping_latency |-> Get2(data.ping, "latency"),
                ping_low |-> Get2(data.ping, "low"),
                ping_high |-> Get2(data.ping, "high"),
                download_bandwidth |-> Get2(data.download, "bandwidth"),
                download_latency_iqm |-> Get2(data.download, "latency_iqm"),
                upload_bandwidth |-> Get2(data.upload, "bandwidth"),
                upload_latency_iqm |-> Get2(data.upload, "latency_iqm"),
                packet_loss |-> Get(data.packetLoss, None),
                server_name |-> Get2(data.server, "name"),
                server_location |-> Get2(data.server, "location"),
                server_country |-> Get2(data.server, "country"),
                result_url |-> Get2(data.result, "url"),
                isp |-> Get(data.isp, None),
                external_ip |-> Get2(data.interface, "externalIp"),
                download_mbps |-> ABSENT,
                upload_mbps |-> ABSENT]
          r1 == IF Truthy(r.download_bandwidth)
                THEN [r EXCEPT !.download_mbps = Mbps(r.download_bandwidth)] ELSE r
          r2 == IF Truthy(r1.upload_bandwidth)
                THEN [r1 EXCEPT !.upload_mbps = Mbps(r1.upload_bandwidth)] ELSE r1
      IN  \* the :.2f formatting of ping_latency and ping_jitter raises on
          \* None, and the except clause returns None
          IF r2.ping_latency = None \/ r2.ping_jitter = None THEN None ELSE r2

---------------------------------------------------------------------------
\* SpeedtestRunner.write_speedtest_result and the error marker

\* measurement names
M_speedtest == "speedtest"
M_isp_change == "isp_change"
M_speedtest_error == "speedtest_error"

\* dict.get(key, default): the default is for a missing key, never for a key
\* that holds None
DictGet(d, key, default) == IF key \in DOMAIN d THEN d[key] ELSE default

Unknown == Str(<<"u", "n", "k", "n", "o", "w", "n">>)

\* A variant of the speedtest tags that prefers the measurement tool's own isp
\* and external_ip when it reports them.
SpeedtestTagsToolFirst(res, geo) ==
    [server_name |-> DictGet(res, "server_name", Unknown),
     server_location |-> DictGet(res, "server_location", Unknown),
     server_country |-> DictGet(res, "server_country", Unknown),
     isp |-> IF res.isp # None THEN res.isp ELSE geo.isp,
     asn |-> DictGet(geo, "asn", Unknown),
     connection_type |-> DictGet(geo, "connection_type", Unknown),
     external_ip |-> IF res.external_ip # None THEN res.external_ip ELSE geo.ip]

\* both dicts always hold these keys, so the .get defaults never apply
SpeedtestTags(res, geo) ==
    [server_name |-> DictGet(res, "server_name", Unknown),
     server_location |-> DictGet(res, "server_location", Unknown),
     server_country |-> DictGet(res, "server_country", Unknown),
     isp |-> DictGet(geo, "isp", DictGet(res, "isp", Unknown)),
     asn |-> DictGet(geo, "asn", Unknown),
     connection_type |-> DictGet(geo, "connection_type", Unknown),
     external_ip |-> DictGet(geo, "ip", DictGet(res, "external_ip", Unknown))]

SpeedtestFields(res) ==
    [download_mbps |-> Get(res.download_mbps, Num(0)),
     upload_mbps |-> Get(res.upload_mbps, Num(0)),
     download_bandwidth |-> res.download_bandwidth,
     upload_bandwidth |-> res.upload_bandwidth,
     ping_latency |-> res.ping_latency,
     ping_jitter |-> res.ping_jitter,
     ping_low |-> res.ping_low,
     ping_high |-> res.ping_high,
     download_latency_iqm |-> res.download_latency_iqm,
     upload_latency_iqm |-> res.upload_latency_iqm,
     packet_loss |-> IF res.packet_loss # None THEN res.packet_loss ELSE Num(0),
     result_url |-> res.result_url]

ChangeTags(geo, report) ==
    [previous_isp |-> report.previous_isp,
     current_isp |-> geo.isp,
     previous_asn |-> report.previous_asn,
     current_asn |-> geo.asn,
     previous_connection_type |-> report.previous_connection_type,
     current_connection_type |-> geo.connection_type]

ChangeFields(geo, report) ==
    [ip_changed |-> Bool(report.ip_changed),
     isp_changed |-> Bool(report.isp_changed),
     asn_changed |-> Bool(report.asn_changed),
     previous_ip |-> report.previous_ip,
     current_ip |-> geo.ip,
     event |-> Num(1)]

ErrorTags(geo) ==
    [isp |-> geo.isp, connection_type |-> geo.connection_type]

ErrorFields == [error |-> Num(1)]

\* the points handed to the writer
SpeedtestPoint(w, res, geo) ==
    write_point(w, M_speedtest, SpeedtestTags(res, geo),
                SpeedtestFields(res))
ChangePoint(w, geo, report) ==
    write_point(w, M_isp_change, ChangeTags(geo, report),
                ChangeFields(geo, report))
ErrorPoint(w, geo) ==
    write_point(w, M_speedtest_error, ErrorTags(geo), ErrorFields)

\* A call of writer.write_point: the measurement written and whether the call
\* raised.  The point of the call is the one above for its measurement, the
\* cycle's locals being what they are until run_test_cycle returns.
Call(measurement, raised) == [measurement |-> measurement, raised |-> raised]

\* A variant of write_speedtest_result that writes the speedtest point alone.
write_speedtest_only(res, geo, report, raises1, raises2) ==
    <<Call(M_speedtest, raises1)>>

\* A variant of write_error_marker that writes nothing.
write_no_marker(geo, raises1) == << >>

\* A variant of PersistCalls whose two branches both write the speedtest
\* point and, when the report says changed, the isp_change point.
PersistCallsAlways(res, geo, report, raises1, raises2) ==
    IF report.changed
    THEN <<Call(M_speedtest, raises1), Call(M_isp_change, raises2)>>
    ELSE <<Call(M_speedtest, raises1)>>

\* A variant of write_speedtest_result that guards each write on its own, so
\* that the isp_change point is written whether or not the first call raised.
write_each_guarded(res, geo, report, raises1, raises2) ==
    IF report.changed
    THEN <<Call(M_speedtest, raises1), Call(M_isp_change, raises2)>>
    ELSE <<Call(M_speedtest, raises1)>>

\* write_speedtest_result: the write_point calls it makes, in order.
\* raises1, raises2: whether the first and the second call raise; the
\* except clause ends the function at the first call that raises.
write_speedtest_result(res, geo, report, raises1, raises2) ==
    IF raises1 THEN <<Call(M_speedtest, TRUE)>>
    ELSE IF report.changed
    THEN <<Call(M_speedtest, FALSE), Call(M_isp_change, raises2)>>
    ELSE <<Call(M_speedtest, FALSE)>>

\* the else branch of run_test_cycle
write_error_marker(geo, raises1) == <<Call(M_speedtest_error, raises1)>>

\* if result: ... else: ...
PersistCalls(res, geo, report, raises1, raises2) ==
    IF res # None
    THEN write_speedtest_result(res, geo, report, raises1, raises2)
    ELSE write_error_marker(geo, raises1)

---------------------------------------------------------------------------
\* Bounds and sampled inputs

NumIPs == 2
NumOrgs == 2
NumDocs == 2
\* how many _save_state calls in a row may fail
MaxSaveFailures == 1

IPSample ==
    << Str(<<"1", ".", "2", ".", "3", ".", "4">>),
       Str(<<"5", ".", "6", ".", "7", ".", "8">>),
       Str(<<"9", ".", "9", ".", "9", ".", "9">>) >>
IPs == {IPSample[n] : n \in 1..NumIPs}

\* org strings of the primary provider
OrgSample ==
    << Str(<<"A", "S", "7", "9", "2", "2", " ", "C", "o", "m", "c", "a", "s", "t">>),
       Str(<<"A", "S", "7", "0", "1", " ", "V", "e", "r", "i", "z", "o", "n", " ",
             "W", "i", "r", "e", "l", "e", "s", "s">>),
       Str(<<"A", "S", "7", "9", "2", "2", " ", "C", "o", "x", " ", "L", "T", "E">>),
       Str(<<"A", "c", "m", "e">>) >>
Orgs == {OrgSample[n] : n \in 1..NumOrgs}

Comcast == Str(<<"C", "o", "m", "c", "a", "s", "t">>)
AS7922 == Str(<<"A", "S", "7", "9", "2", "2">>)
Denver == Str(<<"D", "e", "n", "v", "e", "r">>)
Colorado == Str(<<"C", "O">>)
US == Str(<<"U", "S">>)

\* the location keys of a response
Locations == { [city |-> Denver, region |-> Colorado, country |-> US] }

FailureKinds == {"unreachable", "non200", "malformed"}

PrimaryResponses ==
    {[kind |-> k] : k \in FailureKinds}
    \cup {[kind |-> "ok",
           data |-> [ip |-> a, org |-> o, city |-> l.city, region |-> l.region,
                     country |-> l.country]] :
          a \in {ABSENT} \cup IPs, o \in {None} \cup Orgs, l \in Locations}

SecondaryResponses ==
    {[kind |-> k] : k \in FailureKinds}
    \cup {[kind |-> "ok",
           data |-> [query |-> a, isp |-> n, as |-> x, org |-> ABSENT,
                     city |-> l.city, regionName |-> l.region,
                     countryCode |-> l.country]] :
          a \in {ABSENT, IPSample[1]},
          n \in {ABSENT, Comcast, Num(7)},
          x \in {ABSENT, OrgSample[1]},
          l \in Locations}

\* org strings of the primary provider for get_ip_info examined alone
ComcastCableOrg ==
    Str(<<"A", "S", "7", "9", "2", "2", " ", "C", "o", "m", "c", "a",
          "s", "t", " ", "C", "a", "b", "l", "e">>)
ComcastCable ==
    Str(<<"C", "o", "m", "c", "a", "s", "t", " ", "C", "a", "b", "l", "e">>)
PrivateNetwork ==
    Str(<<"P", "r", "i", "v", "a", "t", "e", " ", "N", "e", "t", "w",
          "o", "r", "k", " ", "L", "L", "C">>)
OrgsWide ==
    { ComcastCableOrg,
      PrivateNetwork,
      AS7922,
      Str(<<"A", "S", "7", "0", "1", " ", "V", "e", "r", "i", "z", "o",
            "n", " ", "W", "i", "r", "e", "l", "e", "s", "s">>),
      Str(<<"A", "S", "2", "2", "7", "7", "3", " ", "C", "o", "x", " ",
            "L", "T", "E">>),
      Str(<<"A", "S", "5", "6", "5", "0", " ", "F", "r", "o", "n", "t",
            "i", "e", "r", " ", "F", "i", "b", "e", "r">>),
      Str(<<"A", "S", "2", "0", "9", " ", "C", "e", "n", "t", "u", "r",
            "y", "L", "i", "n", "k">>),
      Str(<<"A", "S", "D", "A", " ", "B", "r", "o", "a", "d", "b", "a",
            "n", "d">>),
      Str(<<"C", "o", "x", " ", "M", "o", "b", "i", "l", "e">>),
      Str(<<"a", "s", "7", "9", "2", "2", " ", "f", "i", "o", "s">>),
      Str(<< >>) }

\* isp names of the secondary provider for get_ip_info examined alone
CoxLTE == Str(<<"C", "o", "x", " ", "L", "T", "E">>)
XFINITY == Str(<<"X", "F", "I", "N", "I", "T", "Y">>)
IspsWide ==
    { CoxLTE,
      Str(<<"G", "o", "o", "g", "l", "e", " ", "F", "i", "b", "e", "r">>),
      XFINITY,
      Str(<<"A", "c", "m", "e", " ", "D", "S", "L">>),
      Str(<<"A", "c", "m", "e">>) }

PrimaryWide ==
    {[kind |-> k] : k \in FailureKinds}
    \cup {[kind |-> "ok",
           data |-> [ip |-> a, org |-> o, city |-> l.city, region |-> l.region,
                     country |-> l.country]] :
          a \in {ABSENT, IPSample[1]},
          o \in {ABSENT, None, Num(7)} \cup OrgsWide,
          l \in Locations}

SecondaryWide ==
    {[kind |-> k] : k \in FailureKinds}
    \cup {[kind |-> "ok",
           data |-> [query |-> a, isp |-> n, as |-> x, org |-> ABSENT,
                     city |-> l.city, regionName |-> l.region,
                     countryCode |-> l.country]] :
          a \in {ABSENT, IPSample[2]},
          n \in {ABSENT, None, Num(7)} \cup IspsWide,
          x \in {ABSENT, OrgSample[1], Num(7)},
          l \in Locations}

\* what one call of get_ip_info can give
LocateOutcomes ==
    {get_ip_info(p, s) : p \in PrimaryResponses, s \in SecondaryResponses}

\* JSON documents of the speedtest CLI
FullDoc ==
    [ping |-> [jitter |-> Num(2), latency |-> Num(11), low |-> Num(9),
               high |-> Num(15)],
     download |-> [bandwidth |-> Num(12500000), latency_iqm |-> Num(20)],
     upload |-> [bandwidth |-> Num(1250000), latency_iqm |-> Num(30)],
     packetLoss |-> Num(0),
     server |-> [name |-> Comcast, location |-> Denver, country |-> US],
     result |-> [url |-> Str(<<"u", "r", "l">>)],
     isp |-> Str(<<"A", "c", "m", "e">>),
     interface |-> [externalIp |-> IPSample[3]]]

DocSample ==
    << FullDoc,
       [FullDoc EXCEPT !.ping = ABSENT],
       [FullDoc EXCEPT !.download = [bandwidth |-> Num(0), latency_iqm |-> ABSENT],
                       !.packetLoss = ABSENT, !.server = ABSENT],
       [FullDoc EXCEPT !.ping = [jitter |-> ABSENT, latency |-> Num(11),
                                 low |-> ABSENT, high |-> ABSENT]] >>

ProcRuns ==
    {[kind |-> k] : k \in {"timeout", "oserror", "nonzero", "badjson"}}
    \cup {[kind |-> "ok", doc |-> DocSample[n]] : n \in 1..NumDocs}

\* the module globals INFLUXDB_VERSION, INFLUXDB_USERNAME, INFLUXDB_TOKEN
Env(version, username, token) ==
    [version |-> version, username |-> username, token |-> token]
Envs ==
    { Env(<<" ", "1">>, <<"u">>, << >>),
      Env(<<"1">>, << >>, <<"t">>),
      Env(<<"2">>, << >>, <<"t">>),
      Env(<<"2">>, <<"u">>, << >>) }

\* what the state file can hold before the first process starts
InitialFiles ==
    { AbsentFile, GarbageFile,
      JsonFile([ip |-> IPSample[1], isp |-> Comcast, asn |-> ABSENT,
                connection_type |-> ABSENT, updated_at |-> ABSENT]) }

---------------------------------------------------------------------------
\* wait_for_influxdb

max_retries == 30

\* One pass of the for loop, i polls already made, on the health check's
\* outcome ("ok200", "non200" or "exception"):
\* [returned, value, i] - whether the function returned, what, the next i
wait_for_influxdb_pass(n, outcome) ==
    IF outcome = "ok200" THEN [returned |-> TRUE, value |-> TRUE, i |-> 0]
    ELSE IF n + 1 < max_retries THEN [returned |-> FALSE, value |-> FALSE, i |-> n + 1]
    ELSE [returned |-> TRUE, value |-> FALSE, i |-> 0]

HealthOutcomes == {"ok200", "non200", "exception"}

---------------------------------------------------------------------------
\* State

VARIABLES
    pc,               \* where the process is
    i,                \* wait_for_influxdb's loop variable
    env,              \* the module globals create_influxdb_writer reads
    caller,           \* who called run_test_cycle: "main" or "schedule"
    writer,           \* runner.writer: "none", "v1" or "v2"
    closed,           \* close() has been called on runner.writer
    asked,            \* the provider responses of a get_ip_info call examined alone
    tracker,          \* runner.isp_tracker's last_* fields
    file,             \* the state file, shared by successive processes
    ip_info,          \* run_test_cycle's locals
    isp_change,
    result,
    calls,            \* the write_point calls of the cycle, in order
    exit,             \* how the process ended
    health,           \* history: what the health check answered
    file_touched,     \* history: this process has opened the state file
    loaded,           \* history: this process's _load_state read a JSON object
    detected,         \* history: the GeoRecord of the latest check_for_change
    detected_in_proc, \* history: this process has called check_for_change
    save_failures,    \* history: how many _save_state calls failed in a row
    before            \* history: what check_for_change found when the cycle called it

vars == <<pc, i, env, caller, writer, closed, asked, tracker, file, ip_info, isp_change, result,
          calls, exit, health, file_touched, loaded, detected,
          detected_in_proc, save_failures, before>>

cycle_locals == <<ip_info, isp_change, result, calls, before>>
history == <<detected, detected_in_proc, save_failures>>

\* env before create_influxdb_writer has read the globals: they are set when
\* the module is loaded and read once, so the model draws them at that read
Unread == [version |-> << >>, username |-> << >>, token |-> << >>, read |-> FALSE]
ReadEnv(e) == [version |-> e.version, username |-> e.username, token |-> e.token,
               read |-> TRUE]

Running == [cause |-> "running"]
Exited(status, cause) == [cause |-> cause, status |-> status]

NoDetection == [t |-> "nothing"]

\* current_ip, current_isp, current_asn, current_connection_type
GeoRecord(info) ==
    [ip |-> info.ip, isp |-> info.isp, asn |-> info.asn,
     connection_type |-> info.connection_type]

Init ==
    /\ pc = "startup_wait"
    /\ i = 0
    /\ env = Unread
    /\ caller = "main"
    /\ writer = "none"
    /\ closed = FALSE
    /\ asked = None
    /\ tracker = NoBaseline
    /\ file \in InitialFiles
    /\ ip_info = None
    /\ isp_change = None
    /\ result = None
    /\ calls = << >>
    /\ exit = Running
    /\ health = "pending"
    /\ file_touched = FALSE
    /\ loaded = FALSE
    /\ detected = NoDetection
    /\ detected_in_proc = FALSE
    /\ save_failures = 0
    /\ before = None

---------------------------------------------------------------------------
\* main: startup

\* one poll of the health endpoint in wait_for_influxdb; on False main returns
Poll ==
    /\ pc = "startup_wait"
    /\ \E outcome \in HealthOutcomes :
         LET w == wait_for_influxdb_pass(i, outcome)
         IN  /\ i' = w.i
             /\ health' = IF outcome = "ok200" THEN "ready"
                          ELSE IF w.returned THEN "failed" ELSE health
             /\ pc' = IF ~w.returned THEN "startup_wait"
                      ELSE IF w.value THEN "startup_create" ELSE "exited"
             /\ exit' = IF w.returned /\ ~w.value
                        THEN Exited(0, "unreachable") ELSE exit
    /\ UNCHANGED <<env, caller, writer, closed, asked,
                   tracker, file, cycle_locals, file_touched,
                   loaded, history>>

\* runner = SpeedtestRunner(): create_influxdb_writer, then ISPTracker()
CreateRunner ==
    /\ pc = "startup_create"
    /\ \E e \in Envs :
         LET c == create_influxdb_writer(e)
         IN  /\ env' = ReadEnv(e)
             /\ IF c.raised
                THEN /\ pc' = "exited"
                     /\ exit' = Exited(1, "credential")
                     /\ UNCHANGED <<writer, closed, tracker, file_touched, loaded>>
                ELSE /\ \E readable \in BOOLEAN :
                          /\ tracker' = ISPTracker_init(file, readable)
                          /\ loaded' = (readable /\ file.kind = "json")
                     /\ writer' = c.writer
                     /\ closed' = FALSE
                     /\ file_touched' = (file.kind # "absent")
                     /\ pc' = "locating"
                     /\ exit' = exit
    /\ UNCHANGED <<i, caller, asked, file, cycle_locals, health, history>>

---------------------------------------------------------------------------
\* run_test_cycle

\* ip_info = self.isp_tracker.get_ip_info(); an exception it raises leaves
\* run_test_cycle and main
Locate ==
    /\ pc = "locating"
    /\ \E o \in LocateOutcomes :
         IF o.raised
         THEN /\ pc' = "exited"
              /\ exit' = Exited(1, "cycle_exception")
              /\ ip_info' = ip_info
         ELSE /\ pc' = "detecting"
              /\ exit' = exit
              /\ ip_info' = o.info
    /\ UNCHANGED <<i, env, caller, writer, closed, asked,
                   tracker, file, isp_change, result, calls,
                   health, file_touched, loaded, history, before>>

\* A variant of the detection that reads the state file again before it
\* compares.
DetectReloading(outcome) ==
    LET held == _load_state(tracker, file, TRUE)
        c == check_for_change(held, ip_info)
    IN  /\ isp_change' = c.report
        /\ tracker' = c.tracker
        /\ file' = _save_state(c.tracker, file, outcome)
        /\ save_failures' = IF outcome = "ok" THEN 0 ELSE save_failures + 1
        /\ detected' = GeoRecord(ip_info)
        /\ before' = [baseline |-> held, detected |-> detected,
                      detected_in_proc |-> detected_in_proc,
                      file |-> file.kind, save_failures |-> save_failures]
        /\ detected_in_proc' = TRUE
        /\ file_touched' = TRUE
        /\ pc' = "measuring"
        /\ UNCHANGED <<i, env, caller, writer, closed, asked,
                       ip_info, result, calls, exit, health, loaded>>

\* isp_change = self.isp_tracker.check_for_change(ip_info), _save_state included
DetectOutcome(outcome) ==
    LET c == check_for_change(tracker, ip_info)
    IN  /\ isp_change' = c.report
        /\ tracker' = c.tracker
        /\ file' = _save_state(c.tracker, file, outcome)
        /\ save_failures' = IF outcome = "ok" THEN 0 ELSE save_failures + 1
        /\ detected' = GeoRecord(ip_info)
        /\ before' = [baseline |-> tracker, detected |-> detected,
                      detected_in_proc |-> detected_in_proc,
                      file |-> file.kind, save_failures |-> save_failures]
        /\ detected_in_proc' = TRUE
        /\ file_touched' = TRUE
        /\ pc' = "measuring"
        /\ UNCHANGED <<i, env, caller, writer, closed, asked,
                   ip_info, result, calls, exit, health,
                       loaded>>

Detect ==
    /\ pc = "detecting"
    /\ \E outcome \in SaveOutcomes :
         /\ outcome # "ok" => save_failures < MaxSaveFailures
         /\ DetectOutcome(outcome)

\* the same call in a run where every write of the state file succeeds
DetectOk ==
    /\ pc = "detecting"
    /\ DetectOutcome("ok")

\* result = self.run_speedtest()
Measure ==
    /\ pc = "measuring"
    /\ \E proc \in ProcRuns : result' = run_speedtest(proc)
    /\ pc' = "persisting"
    /\ UNCHANGED <<i, env, caller, writer, closed, asked,
                   tracker, file, ip_info, isp_change, calls,
                   exit, health, file_touched, loaded, history, before>>

\* if result: write_speedtest_result(...) else: the speedtest_error point
Persist ==
    /\ pc = "persisting"
    /\ \E raises1, raises2 \in BOOLEAN :
         calls' = PersistCalls(result, ip_info, isp_change, raises1, raises2)
    /\ pc' = "cycle_done"
    /\ UNCHANGED <<i, env, caller, writer, closed, asked,
                   tracker, file, ip_info, isp_change, result,
                   exit, health, file_touched, loaded, history, before>>

\* run_test_cycle returns: to main, which reads args.once and returns under
\* --once or enters the scheduler loop; or to the scheduler loop that called it
ReturnTo(once) ==
    /\ ip_info' = None
    /\ isp_change' = None
    /\ result' = None
    /\ calls' = << >>
    /\ before' = None
    /\ IF caller = "main" /\ once
       THEN pc' = "exited" /\ exit' = Exited(0, "once")
       ELSE pc' = "scheduler" /\ exit' = exit
    /\ UNCHANGED <<i, env, caller, writer, closed, asked,
                   tracker, file, health, file_touched,
                   loaded, history>>

Return ==
    /\ pc = "cycle_done"
    /\ \E once \in BOOLEAN : ReturnTo(once)

\* the same return in a process started with --once
ReturnOnce ==
    /\ pc = "cycle_done"
    /\ ReturnTo(TRUE)

---------------------------------------------------------------------------
\* main: the scheduler loop, and the processes that follow one another

\* schedule.run_pending() finds the job due
RunPending ==
    /\ pc = "scheduler"
    /\ pc' = "locating"
    /\ caller' = "schedule"
    /\ UNCHANGED <<i, env, writer, closed, asked,
                   tracker, file, cycle_locals, exit, health,
                   file_touched, loaded, history>>

\* the daemon is terminated from outside
Interrupt ==
    /\ pc = "scheduler"
    /\ pc' = "exited"
    /\ exit' = Exited(130, "interrupt")
    /\ UNCHANGED <<i, env, caller, writer, closed, asked,
                   tracker, file, cycle_locals, health,
                   file_touched, loaded, history>>

\* a new process is started on the same state file
Restart ==
    /\ pc = "exited"
    /\ pc' = "startup_wait"
    /\ i' = 0
    /\ env' = Unread
    /\ caller' = "main"
    /\ writer' = "none"
    /\ closed' = FALSE
    /\ asked' = None
    /\ tracker' = NoBaseline
    /\ ip_info' = None
    /\ isp_change' = None
    /\ result' = None
    /\ calls' = << >>
    /\ before' = None
    /\ exit' = Running
    /\ health' = "pending"
    /\ file_touched' = FALSE
    /\ loaded' = FALSE
    /\ detected_in_proc' = FALSE
    /\ UNCHANGED <<file, detected, save_failures>>

Next ==
    \/ Poll
    \/ CreateRunner
    \/ Locate
    \/ Detect
    \/ Measure
    \/ Persist
    \/ Return
    \/ RunPending
    \/ Interrupt
    \/ Restart

Spec == Init /\ [][Next]_vars

\* The steps the process takes by itself: the interpreter runs main() on, the
\* polls and the subprocess are bounded by timeouts, and the scheduler finds
\* the job due once every interval.  Interrupt and Restart come from outside.
Step ==
    \/ Poll
    \/ CreateRunner
    \/ Locate
    \/ Detect
    \/ Measure
    \/ Persist
    \/ Return
    \/ RunPending

FairSpec == Init /\ [][Next]_vars /\ WF_vars(Step)

\* processes that follow one another on a state file every write of which
\* succeeds
NextWritesOk ==
    \/ Poll
    \/ CreateRunner
    \/ Locate
    \/ DetectOk
    \/ Measure
    \/ Persist
    \/ Return
    \/ RunPending
    \/ Interrupt
    \/ Restart

SpecWritesOk == Init /\ [][NextWritesOk]_vars

\* processes every one of which is started with --once: the scheduler loop
\* is never entered
NextOnce ==
    \/ Poll
    \/ CreateRunner
    \/ Locate
    \/ Detect
    \/ Measure
    \/ Persist
    \/ ReturnOnce
    \/ Restart

SpecOnce == Init /\ [][NextOnce]_vars

---------------------------------------------------------------------------
\* get_ip_info examined alone: a runner just constructed on no state file, and
\* the responses the two providers will give to its first get_ip_info call

InitLocate ==
    /\ pc = "locating"
    /\ i = 0
    /\ env = ReadEnv(Env(<<"1">>, <<"u">>, << >>))
    /\ caller = "main"
    /\ writer = "v1"
    /\ closed = FALSE
    /\ asked \in [primary : PrimaryWide, secondary : SecondaryWide]
    /\ tracker = NoBaseline
    /\ file = AbsentFile
    /\ ip_info = None
    /\ isp_change = None
    /\ result = None
    /\ calls = << >>
    /\ exit = Running
    /\ health = "ready"
    /\ file_touched = FALSE
    /\ loaded = FALSE
    /\ detected = NoDetection
    /\ detected_in_proc = FALSE
    /\ save_failures = 0
    /\ before = None

\* ip_info = self.isp_tracker.get_ip_info() on the responses asked
LocateAsked ==
    /\ pc = "locating"
    /\ asked # None
    /\ LET o == get_ip_info(asked.primary, asked.secondary)
       IN  IF o.raised
           THEN /\ pc' = "exited"
                /\ exit' = Exited(1, "cycle_exception")
                /\ ip_info' = ip_info
           ELSE /\ pc' = "detecting"
                /\ exit' = exit
                /\ ip_info' = o.info
    /\ UNCHANGED <<i, env, caller, writer, closed, asked,
                   tracker, file, isp_change, result, calls,
                   health, file_touched, loaded, history, before>>

NextLocate == LocateAsked

SpecLocate == InitLocate /\ [][NextLocate]_vars

---------------------------------------------------------------------------
\* Properties

\* run_test_cycle is under way
InCycle == pc \in {"locating", "detecting", "measuring", "persisting", "cycle_done"}

\* check_for_change has returned in the cycle under way
AfterDetect == pc \in {"measuring", "persisting", "cycle_done"}

\* write_point was called for measurement m in this cycle, and how often
Called(m) == \E k \in 1..Len(calls) : calls[k].measurement = m
CountCalls(m) == Cardinality({k \in 1..Len(calls) : calls[k].measurement = m})

NoFlags(r) == ~r.changed /\ ~r.ip_changed /\ ~r.isp_changed /\ ~r.asn_changed

\* the flags of r are set exactly where cur differs from prev
FlagsWhereDiffer(r, prev, cur) ==
    /\ r.ip_changed = (cur.ip # prev.ip)
    /\ r.isp_changed = (cur.isp # prev.isp)
    /\ r.asn_changed = (cur.asn # prev.asn)
    /\ r.changed = (cur.ip # prev.ip \/ cur.isp # prev.isp \/ cur.asn # prev.asn)

VerizonWireless ==
    Str(<<"V", "e", "r", "i", "z", "o", "n", " ", "W", "i", "r", "e", "l", "e", "s", "s">>)

\* C1 as stated: once check_for_change has returned changed = true, an
\* isp_change point is handed to the writer, in that cycle or a later one,
\* unless the process ends first.
C1_AsClaimed ==
    (AfterDetect /\ isp_change.changed) ~> (Called(M_isp_change) \/ pc = "exited")

\* C1: when a cycle ends, it has handed an isp_change point to the writer if
\* and only if its ChangeReport says changed, its measurement succeeded and
\* the write of the speedtest point did not raise.  The point is built from
\* the cycle's own report, so a change whose cycle wrote none is not reported
\* by a later cycle.
C1_ChangeWrittenWithSpeedtest ==
    pc = "cycle_done" =>
        (Called(M_isp_change) <=>
            (isp_change.changed /\ result # None /\ ~calls[1].raised))

\* a change was detected, the measurement succeeded, and both points were written
C1_Witness ==
    /\ pc = "cycle_done"
    /\ isp_change.changed
    /\ result # None
    /\ calls = <<Call(M_speedtest, FALSE), Call(M_isp_change, FALSE)>>

\* C2: a cycle whose measurement failed (run_speedtest returned None) goes on
\* to its end, and at its end it has made exactly one write_point call, for
\* speedtest_error: no speedtest point and no isp_change point.
C2_FailedMeasurementMarksError ==
    /\ (pc = "persisting" /\ result = None) => ENABLED Persist
    /\ (pc = "cycle_done" /\ result = None) =>
          /\ Len(calls) = 1
          /\ CountCalls(M_speedtest_error) = 1
          /\ CountCalls(M_speedtest) = 0
          /\ CountCalls(M_isp_change) = 0

\* the measurement failed in a cycle that had detected a change
C2_Witness ==
    /\ pc = "cycle_done"
    /\ result = None
    /\ isp_change.changed
    /\ calls = <<Call(M_speedtest_error, FALSE)>>

\* C3 as stated: a cycle whose measurement succeeded makes one speedtest
\* call, no speedtest_error call, and an isp_change call if and only if the
\* ChangeReport says changed.
C3_AsClaimed ==
    (pc = "cycle_done" /\ result # None) =>
        /\ CountCalls(M_speedtest) = 1
        /\ CountCalls(M_speedtest_error) = 0
        /\ Called(M_isp_change) <=> isp_change.changed

\* C3: a cycle whose measurement succeeded makes one speedtest call, first,
\* no speedtest_error call, and one isp_change call if the ChangeReport says
\* changed and the speedtest call did not raise, none otherwise; none in
\* particular when the baseline had no ip.
C3_ChangeWrittenAfterSpeedtest ==
    (pc = "cycle_done" /\ result # None) =>
        /\ calls[1].measurement = M_speedtest
        /\ CountCalls(M_speedtest) = 1
        /\ CountCalls(M_speedtest_error) = 0
        /\ CountCalls(M_isp_change) =
              IF isp_change.changed /\ ~calls[1].raised THEN 1 ELSE 0
        /\ isp_change.previous_ip = None => ~Called(M_isp_change)

\* a change was detected and the speedtest write raised
C3_Witness ==
    /\ pc = "cycle_done"
    /\ result # None
    /\ isp_change.changed
    /\ calls = <<Call(M_speedtest, TRUE)>>

\* C4 as stated: no cycle ends by an exception that leaves run_test_cycle.
C4_AsClaimed == pc = "exited" => exit.cause # "cycle_exception"

\* C5: when the baseline held before check_for_change had a null ip, the
\* report has changed and the three *_changed flags all false, whatever the
\* new GeoRecord and the baseline's isp and asn.
C5_ColdStartReportsNothing ==
    (AfterDetect /\ before.baseline.last_ip = None) => NoFlags(isp_change)

\* the baseline had no ip but an isp, and the new record has an ip and another isp
C5_Witness ==
    /\ pc = "measuring"
    /\ before.baseline.last_ip = None
    /\ before.baseline.last_isp # None
    /\ detected.ip # None
    /\ detected.isp # before.baseline.last_isp

\* C6 as stated: for a GeoRecord whose ip is null the report has all four
\* flags false, whatever the baseline.
C6_AsClaimed ==
    (AfterDetect /\ detected.ip = None) => NoFlags(isp_change)

\* C6: for a GeoRecord whose ip is null, ip_changed and changed are true
\* exactly when the baseline's ip is not null; isp_changed and asn_changed
\* are true exactly when, besides, the isp or the asn differs from the
\* baseline's.
C6_NullIpAgainstBaseline ==
    (AfterDetect /\ detected.ip = None) =>
        LET known == before.baseline.last_ip # None
        IN  /\ isp_change.ip_changed = known
            /\ isp_change.changed = known
            /\ isp_change.isp_changed =
                  (known /\ detected.isp # before.baseline.last_isp)
            /\ isp_change.asn_changed =
                  (known /\ detected.asn # before.baseline.last_asn)

\* a record without ip met a baseline with one
C6_Witness ==
    /\ pc = "measuring"
    /\ detected.ip = None
    /\ before.baseline.last_ip # None
    /\ isp_change.ip_changed
    /\ isp_change.changed

\* C7: when a process calls check_for_change with the GeoRecord of its
\* previous call, the report has all four flags false.
C7_SecondCallReportsNothing ==
    (AfterDetect /\ before.detected_in_proc /\ before.detected = detected)
        => NoFlags(isp_change)

\* the same record, with an ip, was given twice in a row
C7_Witness ==
    /\ pc = "measuring"
    /\ before.detected_in_proc
    /\ before.detected = detected
    /\ detected.ip # None
    /\ NoFlags(isp_change)

\* C8: after check_for_change(current) the tracker holds current's ip, isp,
\* asn and connection_type, the state file holds them when the write
\* succeeded, and the report's previous_* are the baseline held before.
C8_BaselineSwapped ==
    AfterDetect =>
        /\ tracker = [last_ip |-> ip_info.ip, last_isp |-> ip_info.isp,
                      last_asn |-> ip_info.asn,
                      last_connection_type |-> ip_info.connection_type]
        /\ save_failures = 0 =>
              file = JsonFile([ip |-> ip_info.ip, isp |-> ip_info.isp,
                               asn |-> ip_info.asn,
                               connection_type |-> ip_info.connection_type,
                               updated_at |-> Timestamp])
        /\ isp_change.previous_ip = before.baseline.last_ip
        /\ isp_change.previous_isp = before.baseline.last_isp
        /\ isp_change.previous_asn = before.baseline.last_asn
        /\ isp_change.previous_connection_type =
              before.baseline.last_connection_type

\* nothing changed against a baseline that was there, and the file was written
C8_Witness ==
    /\ pc = "measuring"
    /\ before.baseline.last_ip # None
    /\ ~isp_change.changed
    /\ save_failures = 0
    /\ file.kind = "json"
    /\ file.doc.ip = ip_info.ip

\* C9 as stated: the first detection of a process sets the flags exactly
\* where its GeoRecord differs from the GeoRecord of the latest detection of
\* an earlier process.
C9_AsClaimed ==
    (AfterDetect /\ ~before.detected_in_proc /\ before.detected # NoDetection)
        => FlagsWhereDiffer(isp_change, before.detected, detected)

\* C9: the first detection of a process sets the flags exactly where its
\* GeoRecord differs from the GeoRecord of the latest detection of an
\* earlier process, when the process has read the state file and that
\* earlier record has an ip; otherwise the four flags are false.
C9_BaselineSurvivesRestart ==
    (AfterDetect /\ ~before.detected_in_proc /\ before.detected # NoDetection)
        => IF loaded /\ before.detected.ip # None
           THEN FlagsWhereDiffer(isp_change, before.detected, detected)
           ELSE NoFlags(isp_change)

\* 1.2.3.4 / Comcast was left by an earlier process, and the first detection
\* of this one finds 5.6.7.8 / Verizon Wireless
C9_Witness ==
    /\ pc = "measuring"
    /\ ~before.detected_in_proc
    /\ before.detected # NoDetection
    /\ before.detected.ip = IPSample[1]
    /\ before.detected.isp = Comcast
    /\ detected.ip = IPSample[2]
    /\ detected.isp = VerizonWireless
    /\ detected.connection_type = CT_cellular
    /\ isp_change.changed
    /\ isp_change.ip_changed
    /\ isp_change.isp_changed

\* the credential create_influxdb_writer asks for
RequiredCredential ==
    IF Strip(env.version) = <<"1">> THEN env.username ELSE env.token

\* C10: a health poll is made only while fewer than max_retries were made;
\* a cycle runs, the scheduler is entered or the state file is opened only
\* after a poll answered 200 and with the required credential set; and a
\* process that ends for want of either has run no cycle and has not opened
\* the state file.
C10_NoCycleBeforeReady ==
    /\ pc = "startup_wait" => i < max_retries
    /\ (InCycle \/ pc = "scheduler" \/ file_touched \/ detected_in_proc) =>
          /\ health = "ready"
          /\ env.read
          /\ RequiredCredential # << >>
    /\ (pc = "exited" /\ exit.cause \in {"unreachable", "credential"}) =>
          /\ ~file_touched
          /\ ~detected_in_proc
          /\ (exit.cause = "unreachable" => health = "failed" /\ ~env.read)
          /\ (exit.cause = "credential" => RequiredCredential = << >>)

\* a cycle runs with the 1.x writer
C10_Witness ==
    /\ pc = "measuring"
    /\ writer = "v1"
    /\ health = "ready"
    /\ file_touched


\* C11: once a metrics writer has been constructed, close() has been called
\* on it whenever the process has left main (after the single cycle of a
\* run-once invocation, after the daemon loop was interrupted).
C11_AsClaimed ==
    pc = "exited" /\ writer # "none" => closed

\* C12: when the storage backend stays unreachable past the retry budget the
\* process ends with a failure status (non-zero).
C12_AsClaimed ==
    pc = "exited" /\ exit.cause = "unreachable" => exit.status # 0

\* C13: a process started with --once that got past startup (the backend
\* answered and the credential was present) leaves with status 0 after its
\* one cycle, whatever happened inside the cycle.
C13_AsClaimed ==
    pc = "exited" /\ exit.cause \notin {"unreachable", "credential"}
        => exit = Exited(0, "once")

\* the cycle under way is the first of a process whose constructor found no
\* state file, could not read it, or read something that is no state document
ColdProcess == ~loaded /\ ~detected_in_proc

\* C14: when the state file is absent, unreadable or no parsable state
\* document, the tracker is constructed with ip, isp, asn and connection_type
\* all null, and the first detection of that process reports changed = false
\* (and no other flag) whatever the GeoRecord.
C14_UnloadedStartIsCold ==
    /\ pc \in {"locating", "detecting"} /\ ColdProcess => tracker = NoBaseline
    /\ AfterDetect /\ ~loaded /\ ~before.detected_in_proc
         => /\ before.baseline = NoBaseline
            /\ NoFlags(isp_change)

\* a process that follows one whose detection had an ip, and that could not
\* load the state file, detects a GeoRecord with an ip
C14_Witness ==
    /\ pc = "measuring"
    /\ ~loaded
    /\ ~before.detected_in_proc
    /\ before.detected # NoDetection
    /\ before.detected.ip # None
    /\ ip_info.ip # None
    /\ ~isp_change.changed

\* both writers hand their client the same point for measurement m, tags t
\* and fields f: the non-null tags stringified, the non-null fields as given
SamePoint(m, t, f) ==
    LET p1 == InfluxDB1Writer_write_point(m, t, f)
        p2 == InfluxDB2Writer_write_point(m, t, f)
    IN  /\ p1 = p2
        /\ p1.measurement = m
        /\ DOMAIN p1.tags = {k \in DOMAIN t : t[k] # None}
        /\ \A k \in DOMAIN p1.tags : p1.tags[k] = PyStr(t[k])
        /\ DOMAIN p1.fields = {k \in DOMAIN f : f[k] # None}
        /\ \A k \in DOMAIN p1.fields : p1.fields[k] = f[k]

\* C15: for the measurement name, tag map and field map of every point a
\* cycle can build, InfluxDB1Writer.write_point and InfluxDB2Writer.write_point
\* transmit the same point: tag keys exactly the tags with non-null values
\* (stringified), field keys exactly the fields with non-null values
\* (unchanged).
C15_WritersTransmitSamePoint ==
    AfterDetect =>
        /\ SamePoint(M_isp_change, ChangeTags(ip_info, isp_change),
                     ChangeFields(ip_info, isp_change))
        /\ SamePoint(M_speedtest_error, ErrorTags(ip_info), ErrorFields)
        /\ result # None =>
               SamePoint(M_speedtest, SpeedtestTags(result, ip_info),
                         SpeedtestFields(result))

\* an isp_change point was written whose current_isp tag and current_ip
\* field are null in the caller's maps and missing from the point
C15_Witness ==
    /\ pc = "cycle_done"
    /\ Called(M_isp_change)
    /\ ChangeTags(ip_info, isp_change).current_isp = None
    /\ ChangeFields(ip_info, isp_change).current_ip = None
    /\ ChangeTags(ip_info, isp_change).previous_isp # None
    /\ "current_isp" \notin DOMAIN ChangePoint(writer, ip_info, isp_change).tags
    /\ "current_ip" \notin DOMAIN ChangePoint(writer, ip_info, isp_change).fields
    /\ "previous_isp" \in DOMAIN ChangePoint(writer, ip_info, isp_change).tags
    /\ "ip_changed" \in DOMAIN ChangePoint(writer, ip_info, isp_change).fields

\* C16: every ChangeReport returned by check_for_change has
\* changed = (ip_changed OR isp_changed OR asn_changed), whatever the
\* detections before it, the baseline and the GeoRecord.
C16_ChangedIsAnyFlag ==
    AfterDetect =>
        isp_change.changed = (isp_change.ip_changed \/ isp_change.isp_changed
                                \/ isp_change.asn_changed)

\* a detection that found the asn alone changed
C16_Witness ==
    /\ AfterDetect
    /\ isp_change.changed
    /\ isp_change.asn_changed
    /\ ~isp_change.ip_changed
    /\ ~isp_change.isp_changed

\* the keyword groups in the order of the chain, each with its classification
Groups ==
    << [kw |-> KwCellular, ct |-> CT_cellular],
       [kw |-> KwCable, ct |-> CT_cable],
       [kw |-> KwFiber, ct |-> CT_fiber],
       [kw |-> KwDsl, ct |-> CT_dsl] >>

\* the lower-cased name holds a keyword of group g
GroupMatches(name, g) == AnyKw(Lower(name), Groups[g].kw)

\* the GeoRecord has an ISP name: `if ip_info["isp"]`
NamePresent(info) == IsStr(info.isp) /\ info.isp.s # << >>

\* C17: the connection type of a returned GeoRecord is that of the first of
\* the groups cellular, cable, fiber, dsl with a keyword in the lower-cased
\* ISP name (a name with a cellular and a cable keyword is cellular), unknown
\* when the name matches no group, and null when there is no ISP name.
C17_FirstMatchingGroupWins ==
    pc = "detecting" =>
        /\ ~NamePresent(ip_info) => ip_info.connection_type = None
        /\ NamePresent(ip_info) =>
             /\ \A g \in 1..Len(Groups) :
                  /\ GroupMatches(ip_info.isp.s, g)
                  /\ \A h \in 1..(g - 1) : ~GroupMatches(ip_info.isp.s, h)
                  => ip_info.connection_type = Groups[g].ct
             /\ (\A g \in 1..Len(Groups) : ~GroupMatches(ip_info.isp.s, g))
                  => ip_info.connection_type = CT_unknown
        /\ ip_info.isp = CoxLTE => ip_info.connection_type = CT_cellular
        /\ ip_info.isp = XFINITY => ip_info.connection_type = CT_cable

\* a name with a cable keyword (cox) and a cellular keyword (lte) was classified
C17_Witness ==
    /\ pc = "detecting"
    /\ ip_info.isp = CoxLTE
    /\ GroupMatches(ip_info.isp.s, 1)
    /\ GroupMatches(ip_info.isp.s, 2)
    /\ ip_info.connection_type = CT_cellular

\* values the measurement tool can report as its own isp and external_ip
ToolValues == {None, Comcast, IPSample[3]}

\* the tags of the cycle's speedtest point, had the tool reported isp a and
\* external_ip b
SpeedtestPointTagsWith(a, b) ==
    SpeedtestPoint(writer, [result EXCEPT !.isp = a, !.external_ip = b],
                   ip_info).tags

\* C18: in the speedtest point the isp tag is the GeoRecord's isp and the
\* external_ip tag is the GeoRecord's ip whenever the GeoRecord has them,
\* whatever the measurement tool reports as its own isp and external_ip.
C18_GeoRecordTakesPrecedence ==
    pc \in {"persisting", "cycle_done"} /\ result # None =>
        \A a, b \in ToolValues :
            LET t == SpeedtestPointTagsWith(a, b)
            IN  /\ ip_info.isp # None =>
                       "isp" \in DOMAIN t /\ t.isp = ip_info.isp
                /\ ip_info.ip # None =>
                       "external_ip" \in DOMAIN t /\ t.external_ip = ip_info.ip

\* a speedtest point was written in a cycle whose GeoRecord and measurement
\* disagree on both the isp and the ip
C18_Witness ==
    /\ pc = "cycle_done"
    /\ Called(M_speedtest)
    /\ result # None
    /\ ip_info.isp # None /\ result.isp # None /\ result.isp # ip_info.isp
    /\ ip_info.ip # None /\ result.external_ip # None
    /\ result.external_ip # ip_info.ip
    /\ SpeedtestPoint(writer, result, ip_info).tags.isp = ip_info.isp
    /\ SpeedtestPoint(writer, result, ip_info).tags.external_ip = ip_info.ip

\* the keys of a GeoRecord
GeoKeys ==
    {"ip", "isp", "asn", "org", "city", "region", "country", "connection_type"}

\* C19: every get_ip_info call queries the secondary provider exactly when
\* the primary provider's pass left ip empty, and returns a GeoRecord of all
\* eight keys without raising, whatever the two providers answered.
C19_AsClaimed ==
    pc # "locating" =>
        /\ get_ip_info(asked.primary, asked.secondary).secondary_queried
             = ~Truthy(PrimaryPass(asked.primary).ip)
        /\ pc = "detecting"
        /\ DOMAIN ip_info = GeoKeys

\* the org string of the primary provider's answer: data.get("org", "")
AskedOrg == Get(asked.primary.data.org, Str(<< >>))

\* the primary provider answered with an org string and what it parsed was
\* not overwritten: it yielded an ip, or the secondary provider gave no answer
PrimaryUsed ==
    /\ asked.primary.kind = "ok"
    /\ IsStr(AskedOrg)
    /\ \/ ~NeedsFallback(PrimaryPass(asked.primary))
       \/ asked.secondary.kind # "ok"

\* the leading space-delimited token of o and what follows its first space
LeadingToken(o) ==
    IF FirstSpace(o) = 0 THEN o ELSE SubSeq(o, 1, FirstSpace(o) - 1)
Remainder(o) ==
    IF FirstSpace(o) = 0 THEN << >> ELSE SubSeq(o, FirstSpace(o) + 1, Len(o))

\* C20 as stated: when the primary provider is used, asn is the leading
\* space-delimited token of its org string and isp the remainder if and only
\* if the string starts with "AS"; otherwise asn is null and isp the whole
\* string.
C20_AsClaimed ==
    pc = "detecting" /\ PrimaryUsed =>
        IF StartsWith(AskedOrg.s, <<"A", "S">>)
        THEN /\ ip_info.asn = Str(LeadingToken(AskedOrg.s))
             /\ ip_info.isp = Str(Remainder(AskedOrg.s))
        ELSE /\ ip_info.asn = None
             /\ ip_info.isp = AskedOrg

\* C20: when the primary provider is used and its org string starts with
\* "AS", asn is the leading space-delimited token and isp is the remainder
\* after the first space, or the whole string when it holds no space;
\* otherwise asn is null and isp the whole string.
C20_OrgSplitOnAsPrefix ==
    pc = "detecting" /\ PrimaryUsed =>
        /\ IF StartsWith(AskedOrg.s, <<"A", "S">>)
           THEN /\ ip_info.asn = Str(LeadingToken(AskedOrg.s))
                /\ ip_info.isp = IF FirstSpace(AskedOrg.s) = 0 THEN AskedOrg
                                 ELSE Str(Remainder(AskedOrg.s))
           ELSE /\ ip_info.asn = None
                /\ ip_info.isp = AskedOrg
        /\ AskedOrg = ComcastCableOrg =>
               ip_info.asn = AS7922 /\ ip_info.isp = ComcastCable
        /\ AskedOrg = PrivateNetwork =>
               ip_info.asn = None /\ ip_info.isp = PrivateNetwork

\* the primary provider answered an org that is an AS token with nothing
\* after it
C20_Witness ==
    /\ pc = "detecting"
    /\ PrimaryUsed
    /\ AskedOrg = AS7922
    /\ ip_info.asn = AS7922
    /\ ip_info.isp = AS7922

\* the detection before the one just made was made by this process and its
\* GeoRecord had a null ip
AfterNullIpDetection ==
    /\ AfterDetect
    /\ before.detected_in_proc
    /\ before.detected.ip = None

\* C21: a detection whose GeoRecord has a null ip stores a null-ip baseline,
\* and the next detection of the process is treated as a cold start: its
\* report has changed = false (and no other flag), whatever it observes.
C21_NullIpDetectionResetsBaseline ==
    /\ AfterDetect /\ ip_info.ip = None => tracker.last_ip = None
    /\ AfterNullIpDetection =>
           /\ before.baseline.last_ip = None
           /\ NoFlags(isp_change)

\* a detection with an ip and an isp follows, in one process, a detection
\* whose geolocation gave nothing, and reports no change
C21_Witness ==
    /\ pc = "measuring"
    /\ AfterNullIpDetection
    /\ before.detected.isp = None
    /\ ip_info.ip # None
    /\ ip_info.isp # None
    /\ ~isp_change.changed

\* the cycle's first write_point call was for the speedtest point and raised
SpeedtestWriteRaised ==
    /\ calls # << >>
    /\ calls[1].measurement = M_speedtest
    /\ calls[1].raised

\* C22: in a cycle whose measurement succeeded, every isp_change call comes
\* after a speedtest call, and when the speedtest call raised the cycle makes
\* no isp_change call and no speedtest_error call, whatever its ChangeReport.
C22_SpeedtestFirstAndFailureEndsWrites ==
    (pc = "cycle_done" /\ result # None) =>
        /\ \A k \in 1..Len(calls) :
               calls[k].measurement = M_isp_change =>
                   \E j \in 1..(k - 1) : calls[j].measurement = M_speedtest
        /\ SpeedtestWriteRaised =>
               /\ ~Called(M_isp_change)
               /\ ~Called(M_speedtest_error)
               /\ Len(calls) = 1

\* the speedtest write raised in a cycle that detected a changed ip
C22_Witness ==
    /\ pc = "cycle_done"
    /\ result # None
    /\ isp_change.changed
    /\ isp_change.ip_changed
    /\ SpeedtestWriteRaised
    /\ ~Called(M_isp_change)

\* the baseline that check_for_change leaves for the GeoRecord rec
BaselineOf(rec) ==
    [last_ip |-> rec.ip, last_isp |-> rec.isp, last_asn |-> rec.asn,
     last_connection_type |-> rec.connection_type]

\* C23: within one process the baseline a detection compares against is
\* exactly the GeoRecord of the process's previous detection, whether or not
\* the state-file writes succeeded and whatever the file holds; between two
\* detections the tracker holds the GeoRecord of the last one.
C23_BaselineIsPreviousRecord ==
    /\ AfterDetect /\ before.detected_in_proc
         => before.baseline = BaselineOf(before.detected)
    /\ pc \in {"scheduler", "locating", "detecting"} /\ detected_in_proc
         => tracker = BaselineOf(detected)

\* a detection found a change against the previous GeoRecord of its process
\* although the save of that record had failed and the file held no state
\* document
C23_Witness ==
    /\ pc = "measuring"
    /\ before.detected_in_proc
    /\ before.save_failures > 0
    /\ before.file # "json"
    /\ before.detected.ip # None
    /\ before.baseline = BaselineOf(before.detected)
    /\ isp_change.changed

====
